---- MODULE Spec2Model ----
(***************************************************************************)
(* One client of the Loto room (App component, dual-broker MQTT version):  *)
(* createRoom makes it the host, joinRoom a guest.                         *)
(*                                                                         *)
(* The client keeps the room in a React state cell (gameState) and mirrors   *)
(* it into a ref (gameStateRef) from a passive effect that runs after the  *)
(* next render.  Handlers registered once (MQTT message callback, draw     *)
(* timer, commentary write-back, useCallback handlers) read the ref; UI    *)
(* handlers read the state captured by the last render, which is the same  *)
(* value the effect stores in the ref.                                     *)
(*                                                                         *)
(* An update made in a click handler is rendered, and its passive effects  *)
(* are run, before the event returns (a React 18 root), so those actions   *)
(* include the render.  An update made in an MQTT callback, an interval    *)
(* callback or a promise continuation is rendered in a later turn: the     *)
(* action Commit is that render plus its effects, and other callbacks may  *)
(* run before it.                                                          *)
(*                                                                         *)
(* Abstractions: display-only fields (name, color, isBot, code) are left   *)
(* out, and so is isWaiting except in the rooms of SpecMark; the roster is *)
(* a function keyed by player id (ids are unique in the roster); a null    *)
(* number or cell is 0; winner is <<>> or a one-element sequence holding   *)
(* the winner's player record; commentary texts are tokens;                *)
(* winningNumbers is the set of numbers of the row.                        *)
(***************************************************************************)
EXTENDS Integers, Sequences, FiniteSets, TLC

VARIABLES
    gameState,     \* the room held in React state (the canonical room)
    gameStateRef,  \* gameStateRef.current, also the room of the last render
    playersNew,    \* gameState.players is another array than the rendered one
    localMarked,   \* localMarkedNumbersRef.current of this client
    timerArmed,    \* callIntervalRef holds a live interval
    fetches,       \* numbers whose generateMCCommentary call is pending
    rounds,        \* rounds started so far (bounds the model)
    playerId,      \* playerIdRef.current: "" until createRoom or joinRoom
    isGameConnecting, \* the connecting flag held in React state
    isGameConnectingRef, \* isGameConnectingRef.current
    connectionError, \* the error shown in the lobby, "" for none
    joinTimeout,   \* the join timer of joinRoom is pending
    gameClientOpen, \* the game client is set up and was not ended
    published,     \* the kinds of message this client's game client published
    retained       \* the room retained on the host topic (its marks left out)

vars == <<gameState, gameStateRef, playersNew, localMarked, timerArmed,
          fetches, rounds, playerId, isGameConnecting, isGameConnectingRef,
          connectionError, joinTimeout, gameClientOpen, published, retained>>

(* what a handler of the room leaves alone *)
session == <<playerId, isGameConnecting, connectionError, joinTimeout,
             gameClientOpen>>

(* ---------------- bounds of the model ---------------- *)
MaxNum == 1
MaxRounds == 1
MaxDraw == 2
MaxCell == 2

(* ---------------- program constants ---------------- *)
TOTAL_NUMBERS == 90
DefaultBetPrice == 10000

HostId == "host"
Guests == {"g1", "g2"}

(* ---------------- tickets ---------------- *)
(* generateTicket is a random generator; the model draws its results from  *)
(* two fixed grids (rows of cells, 0 = blank).                              *)
TicketA == [id |-> "tA", rows |-> << <<1, 0, 0>>, <<0, 0, 3>> >>]
TicketB == [id |-> "tB", rows |-> << <<0, 2, 0>>, <<1, 0, 3>> >>]
(* a grid with two numbers in each row, for rounds that follow the          *)
(* about-to-win flag                                                        *)
TicketC == [id |-> "tC", rows |-> << <<1, 2, 0>>, <<0, 3, 4>> >>]

generateTicket == {TicketA, TicketB}

(* numbers of a row: row.filter(n => n !== null) *)
numbersInRow(row) == {row[i] : i \in {j \in DOMAIN row : row[j] # 0}}

(* the row test without the test for a number in the row *)
RowWinsEmptyToo(row, markedNumbers) ==
    numbersInRow(row) \subseteq markedNumbers

RowWins(row, markedNumbers) ==
    /\ numbersInRow(row) # {}
    /\ numbersInRow(row) \subseteq markedNumbers

(* checkWin of utils/gameUtils.ts: one ticket, boolean result *)
checkWin(ticket, markedNumbers) ==
    \E r \in DOMAIN ticket.rows : RowWins(ticket.rows[r], markedNumbers)

(* checkWin as the multi-sheet App calls it: the numbers of the first fully *)
(* marked row over the sheets in order, {} (falsy) when there is none.      *)
RECURSIVE FirstWinningRow(_, _, _)
FirstWinningRow(rows, markedNumbers, i) ==
    IF i > Len(rows) THEN {}
    ELSE IF RowWins(rows[i], markedNumbers) THEN numbersInRow(rows[i])
    ELSE FirstWinningRow(rows, markedNumbers, i + 1)

RECURSIVE checkWinSheets(_, _, _)
checkWinSheets(sheets, markedNumbers, k) ==
    IF k > Len(sheets) THEN {}
    ELSE IF checkWin(sheets[k], markedNumbers)
         THEN FirstWinningRow(sheets[k].rows, markedNumbers, 1)
         ELSE checkWinSheets(sheets, markedNumbers, k + 1)

(* ---------------- room and players ---------------- *)
INITIAL_STATE ==
    [ status |-> "lobby", players |-> <<>>, calledNumbers |-> <<>>,
      currentNumber |-> 0, winner |-> <<>>, winningNumbers |-> {},
      mcCommentary |-> "", betPrice |-> DefaultBetPrice, pot |-> 0 ]

Ids(s) == DOMAIN s.players

hostPlayer ==
    [ id |-> HostId, isHost |-> TRUE, sheets |-> <<TicketA>>,
      markedNumbers |-> {}, isReady |-> TRUE, balance |-> 0,
      sheetCount |-> 1, status |-> "playing" ]

(* { ...p, ...changes } *)
Merge(p, changes) ==
    [f \in DOMAIN p |-> IF f \in DOMAIN changes THEN changes[f] ELSE p[f]]

SeqToSet(s) == {s[i] : i \in DOMAIN s}

AddPlayer(players, p) ==
    [q \in DOMAIN players \cup {p.id} |-> IF q = p.id THEN p ELSE players[q]]

RemovePlayer(players, id) ==
    [q \in DOMAIN players \ {id} |-> players[q]]

Init ==
    /\ gameState = INITIAL_STATE
    /\ gameStateRef = INITIAL_STATE
    /\ playersNew = FALSE
    /\ localMarked = {}
    /\ timerArmed = FALSE
    /\ fetches = {}
    /\ rounds = 0
    /\ playerId = ""
    /\ isGameConnecting = FALSE
    /\ isGameConnectingRef = FALSE
    /\ connectionError = ""
    /\ joinTimeout = FALSE
    /\ gameClientOpen = FALSE
    /\ published = {}
    /\ retained = <<>>

(* ---------------- the game broker ---------------- *)
(* getHostTopic carries the retained room, getClientTopic the commands *)
HostTopic == "host"
ClientTopic == "client"

Snapshot == [topic |-> HostTopic, type |-> "STATE"]

Command(type) == [topic |-> ClientTopic, type |-> type]

(* Array.from(set): the members in a row (ascending here) *)
RECURSIVE SetToSeq(_)
SetToSeq(S) ==
    IF S = {} THEN <<>>
    ELSE LET n == CHOOSE x \in S : \A y \in S : x <= y
         IN <<n>> \o SetToSeq(S \ {n})

(* The payload of publishState after JSON.stringify: the marks of every    *)
(* player go as an array; the winner is a player object of its own whose    *)
(* markedNumbers is still a Set, which JSON.stringify writes as {}, an      *)
(* object without members.                                                  *)
serialize(state) ==
    [state EXCEPT
       !.players = [q \in Ids(state) |->
                      [state.players[q] EXCEPT
                         !.markedNumbers = SetToSeq(@)]],
       !.winner = IF state.winner = <<>> THEN <<>>
                  ELSE <<[state.winner[1] EXCEPT !.markedNumbers = {}]>>]

(* JSON.parse and the hydration of handleGuestMessage for a player that    *)
(* keeps no marks of its own: every player's array becomes a Set, the rest  *)
(* is taken as parsed                                                       *)
deserialize(remoteState) ==
    [remoteState EXCEPT
       !.players = [q \in Ids(remoteState) |->
                      [remoteState.players[q] EXCEPT
                         !.markedNumbers = SeqToSet(@)]]]

(* The part of a room the retained copy is compared on: everything but the *)
(* marks, whose publication hangs on the about-to-win flag.                 *)
Replicated(state) ==
    [state EXCEPT !.players =
        [q \in Ids(state) |->
           [f \in DOMAIN state.players[q] \ {"markedNumbers", "isWaiting"}
              |-> state.players[q][f]]]]

publishState(state) ==
    /\ published' = published \cup {Snapshot}
    /\ retained' = <<Replicated(state)>>

publishCommand(type) ==
    /\ published' = published \cup {Command(type)}
    /\ UNCHANGED retained

(* createRoom: the connect callback installs the room with the host in it *)
createRoom ==
    /\ gameState.status = "lobby"
    /\ gameStateRef.status = "lobby"
    /\ ~isGameConnectingRef
    /\ playerId' = HostId
    /\ isGameConnecting' = FALSE
    /\ isGameConnectingRef' = TRUE
    /\ connectionError' = ""
    /\ gameClientOpen' = TRUE
    /\ gameState' = [INITIAL_STATE EXCEPT
                        !.players = AddPlayer(<<>>, hostPlayer),
                        !.status = "waiting",
                        !.mcCommentary = "welcome"]
    /\ publishState(gameState')
    /\ playersNew' = TRUE
    /\ UNCHANGED <<gameStateRef, localMarked, timerArmed, fetches, rounds,
                   joinTimeout>>

(* joinRoom: the player takes a guest id and, once subscribed to the host  *)
(* topic, sends JOIN_REQUEST; the room stays the lobby until a Snapshot     *)
(* holding the player arrives.  The lobby form is shown while the rendered  *)
(* room is the lobby.                                                       *)
joinRoom(g) ==
    /\ gameState.status = "lobby"
    /\ gameStateRef.status = "lobby"
    /\ ~isGameConnectingRef
    /\ playerId' = g
    /\ isGameConnecting' = TRUE
    /\ isGameConnectingRef' = TRUE
    /\ connectionError' = ""
    /\ joinTimeout' = TRUE
    /\ gameClientOpen' = TRUE
    /\ publishCommand("JOIN_REQUEST")
    /\ UNCHANGED <<gameState, gameStateRef, playersNew, localMarked,
                   timerArmed, fetches, rounds>>

(* ---------------- commands on the client topic ---------------- *)
(* marks a MARK_UPDATE may carry *)
MarkPayloads == {{}, {1}}

(* marks a BINGO_CLAIM may carry: the first row of TicketA, and no mark at  *)
(* all                                                                      *)
ClaimPayloads == {{}, {1}}

(* the sheets a client may have generated for its JOIN_REQUEST; g1 is the   *)
(* client that reconnects and joins again with a newly generated sheet      *)
joinSheets(g) == IF g = "g1" THEN generateTicket ELSE {TicketA}

(* joinRoom's payload; joinRoom sends isReady false, a modified client may  *)
(* send true                                                                *)
JoinPayloads ==
    UNION { { [ type |-> "JOIN_REQUEST",
                player |-> [ id |-> g, isHost |-> FALSE, sheets |-> <<t>>,
                             markedNumbers |-> {}, isReady |-> r,
                             balance |-> 0, sheetCount |-> 1,
                             status |-> "playing" ] ]
              : t \in joinSheets(g), r \in BOOLEAN }
            : g \in Guests }

LeavePayloads == { [type |-> "PLAYER_LEAVE", playerId |-> g] : g \in Guests }

MarkUpdatePayloads ==
    { [type |-> "MARK_UPDATE", playerId |-> g, markedNumbers |-> m]
      : g \in Guests, m \in MarkPayloads }

(* changes sent by updatePlayerLocallyAndBroadcast: ready toggle            *)
(* (handleToggleReady), a reshuffled sheet (handleShuffleSheet), one more   *)
(* sheet (handleAddSheet)                                                   *)
ChangeSets ==
    { [isReady |-> b] : b \in BOOLEAN }
    \cup { [sheets |-> <<TicketB>>, markedNumbers |-> {}] }
    \cup { [sheets |-> <<TicketA, TicketB>>, sheetCount |-> 2,
            markedNumbers |-> {}] }

PlayerUpdatePayloads ==
    { [type |-> "PLAYER_UPDATE", playerId |-> g, changes |-> c]
      : g \in Guests, c \in ChangeSets }

BingoClaimPayloads ==
    { [type |-> "BINGO_CLAIM", playerId |-> g, markedNumbers |-> m]
      : g \in Guests, m \in ClaimPayloads }

ReadyPayloads ==
    { [type |-> "PLAYER_UPDATE", playerId |-> g, changes |-> [isReady |-> TRUE]]
      : g \in Guests }

(* the commands of the round scenario: both guests join with the sheet     *)
(* TicketA, get ready and claim; one of them also reports marks             *)
RoundJoinPayloads == {d \in JoinPayloads : d.player.sheets = <<TicketA>>}

Commands ==
    RoundJoinPayloads \cup ReadyPayloads \cup BingoClaimPayloads
    \cup {d \in MarkUpdatePayloads : d.playerId = "g1" /\ d.markedNumbers # {}}

(* the commands of the waiting-room scenario: joining, leaving and every   *)
(* customization                                                            *)
LobbyCommands ==
    JoinPayloads \cup LeavePayloads \cup PlayerUpdatePayloads

(* ---------------- handleHostMessage ---------------- *)
(* Each branch yields the room it hands to setGameState (state), whether it *)
(* calls setGameState at all (update) and whether it clears the draw timer. *)
NoUpdate(currentState) ==
    [update |-> FALSE, state |-> currentState, clearTimer |-> FALSE]

(* the joiner seated with the status and readiness its payload carries *)
onJoinRequestAsSent(currentState, data) ==
    IF data.player.id \notin Ids(currentState)
    THEN [ update |-> TRUE,
           state |-> [currentState EXCEPT
                        !.players = AddPlayer(currentState.players, data.player)],
           clearTimer |-> FALSE ]
    ELSE NoUpdate(currentState)

onJoinRequest(currentState, data) ==
    IF data.player.id \notin Ids(currentState)
    THEN LET isLate == currentState.status = "playing"
             newPlayer == Merge(data.player,
                            [ status |-> IF isLate THEN "spectating"
                                                   ELSE "playing",
                              isReady |-> FALSE ])
         IN [ update |-> TRUE,
              state |-> [currentState EXCEPT
                           !.players = AddPlayer(currentState.players, newPlayer)],
              clearTimer |-> FALSE ]
    ELSE NoUpdate(currentState)

onPlayerLeave(currentState, data) ==
    [ update |-> TRUE,
      state |-> [currentState EXCEPT
                   !.players = RemovePlayer(currentState.players, data.playerId)],
      clearTimer |-> FALSE ]

(* new Set(data.markedNumbers): the empty set when the field is missing *)
marksOf(data) ==
    IF "markedNumbers" \in DOMAIN data THEN data.markedNumbers ELSE {}

onMarkUpdate(currentState, data) ==
    [ update |-> TRUE,
      state |-> IF data.playerId \in Ids(currentState)
                THEN [currentState EXCEPT
                        !.players[data.playerId].markedNumbers = marksOf(data)]
                ELSE currentState,
      clearTimer |-> FALSE ]

Truthy(changes, f) == f \in DOMAIN changes /\ changes[f] # 0

onPlayerUpdate(currentState, data) ==
    [ update |-> TRUE,
      state |->
        IF data.playerId \in Ids(currentState)
        THEN LET p == currentState.players[data.playerId]
             IN IF Truthy(data.changes, "sheetCount") /\ p.isReady
                THEN currentState
                ELSE [currentState EXCEPT
                        !.players[data.playerId] = Merge(p, data.changes)]
        ELSE currentState,
      clearTimer |-> FALSE ]

(* the winner is paid and the pot is left as it is *)
onBingoClaimKeepsPot(currentState, data) ==
    IF data.playerId \in Ids(currentState) /\ currentState.status = "playing"
    THEN LET player == currentState.players[data.playerId]
             claimedMarked == marksOf(data)
             winningRow == checkWinSheets(player.sheets, claimedMarked, 1)
         IN IF winningRow # {}
            THEN [ update |-> TRUE,
                   state |-> [currentState EXCEPT
                       !.status = "ended",
                       !.winner = <<player>>,
                       !.winningNumbers = winningRow,
                       !.mcCommentary = "win",
                       !.players[player.id].balance =
                            player.balance + currentState.pot],
                   clearTimer |-> TRUE ]
            ELSE NoUpdate(currentState)
    ELSE NoUpdate(currentState)

(* the win check on the marks the host has stored for the claimant *)
onBingoClaimStoredMarks(currentState, data) ==
    IF data.playerId \in Ids(currentState) /\ currentState.status = "playing"
    THEN LET player == currentState.players[data.playerId]
             winningRow == checkWinSheets(player.sheets, player.markedNumbers, 1)
         IN IF winningRow # {}
            THEN [ update |-> TRUE,
                   state |-> [currentState EXCEPT
                       !.status = "ended",
                       !.winner = <<player>>,
                       !.winningNumbers = winningRow,
                       !.mcCommentary = "win",
                       !.players[player.id].balance =
                            player.balance + currentState.pot,
                       !.pot = 0],
                   clearTimer |-> TRUE ]
            ELSE NoUpdate(currentState)
    ELSE NoUpdate(currentState)

onBingoClaim(currentState, data) ==
    IF data.playerId \in Ids(currentState) /\ currentState.status = "playing"
    THEN LET player == currentState.players[data.playerId]
             claimedMarked == marksOf(data)
             winningRow == checkWinSheets(player.sheets, claimedMarked, 1)
         IN IF winningRow # {}
            THEN [ update |-> TRUE,
                   state |-> [currentState EXCEPT
                       !.status = "ended",
                       !.winner = <<player>>,
                       !.winningNumbers = winningRow,
                       !.mcCommentary = "win",
                       !.players[player.id].balance =
                            player.balance + currentState.pot,
                       !.pot = 0],
                   clearTimer |-> TRUE ]
            ELSE NoUpdate(currentState)
    ELSE NoUpdate(currentState)

(* the handler body throws (and its catch drops the command) when the      *)
(* text is no JSON, when a JOIN_REQUEST has no player, and when a           *)
(* PLAYER_UPDATE for a participant of the roster has no changes             *)
throws(currentState, data) ==
    \/ "type" \notin DOMAIN data
    \/ data.type = "JOIN_REQUEST" /\ "player" \notin DOMAIN data
    \/ /\ data.type = "PLAYER_UPDATE"
       /\ "changes" \notin DOMAIN data
       /\ data.playerId \in Ids(currentState)

hostMessageResult(currentState, data) ==
    IF throws(currentState, data) THEN NoUpdate(currentState)
    ELSE CASE data.type = "JOIN_REQUEST"  -> onJoinRequest(currentState, data)
           [] data.type = "PLAYER_LEAVE"  -> onPlayerLeave(currentState, data)
           [] data.type = "MARK_UPDATE"   -> onMarkUpdate(currentState, data)
           [] data.type = "PLAYER_UPDATE" -> onPlayerUpdate(currentState, data)
           [] data.type = "BINGO_CLAIM"   -> onBingoClaim(currentState, data)
           [] OTHER -> NoUpdate(currentState)

(* shouldBroadcast: set with every update but that of MARK_UPDATE, where   *)
(* it is set when the player is listed and the about-to-win flag sent       *)
(* differs from the one stored.  The flag is not modelled: a guest sends    *)
(* MARK_UPDATE when its flag changed, so the two are taken to differ.       *)
broadcasts(currentState, data, r) ==
    IF ~r.update THEN {FALSE}
    ELSE IF data.type # "MARK_UPDATE" THEN {TRUE}
    ELSE {data.playerId \in Ids(currentState)}

(* the host's game client receives commands once its subscription, made    *)
(* after the room was rendered, is acknowledged; the handler works on       *)
(* gameStateRef.current                                                     *)
handleHostMessage(data) ==
    /\ playerId = HostId
    /\ gameStateRef.status # "lobby"
    /\ LET r == hostMessageResult(gameStateRef, data)
       IN /\ gameState' = IF r.update THEN r.state ELSE gameState
          /\ playersNew' = IF r.update THEN TRUE ELSE playersNew
          /\ timerArmed' = IF r.clearTimer THEN FALSE ELSE timerArmed
          /\ \E shouldBroadcast \in broadcasts(gameStateRef, data, r) :
                IF shouldBroadcast
                THEN publishState(r.state)
                ELSE UNCHANGED <<published, retained>>
    /\ UNCHANGED <<gameStateRef, localMarked, fetches, rounds, session,
                   isGameConnectingRef>>

(* ---------------- render and effects ---------------- *)
(* me?.isHost, me being the entry of this client in the room s; the first  *)
(* reading takes every member for the host                                  *)
IsHostInAnyMember(s) == playerId \in Ids(s)

IsHostIn(s) == playerId \in Ids(s) /\ s.players[playerId].isHost

(* the interval set up whatever the status and the winner are *)
timerConditionAnyStatus(s) == IsHostIn(s)

timerCondition(s) == IsHostIn(s) /\ s.status = "playing" /\ s.winner = <<>>

commentaryCondition(s) ==
    IsHostIn(s) /\ s.currentNumber # 0 /\ s.status = "playing"

(* the interval effect: torn down and set up again when status, winner or  *)
(* the players array changed since the last render                          *)
timerEffect(prev, new, touched, armed) ==
    IF new.status # prev.status \/ new.winner # prev.winner \/ touched
    THEN timerCondition(new)
    ELSE armed

(* the commentary effect: a request is started when currentNumber or status *)
(* changed since the last render                                            *)
commentaryEffect(prev, new, pending) ==
    IF /\ new.currentNumber # prev.currentNumber \/ new.status # prev.status
       /\ commentaryCondition(new)
    THEN pending \cup {new.currentNumber}
    ELSE pending

(* the local marks are cleared whenever status changed *)
clearMarksEffectAnyStatus(prev, new, marks) ==
    IF new.status # prev.status THEN {} ELSE marks

(* the local marks are cleared when status changed to waiting *)
clearMarksEffect(prev, new, marks) ==
    IF new.status # prev.status /\ new.status = "waiting" THEN {} ELSE marks

(* One render of the room new followed by its effects; the ref takes the    *)
(* rendered room.  touched: players is another array than the rendered one; *)
(* marks, armed: the local marks and the interval as the handler left them. *)
Render(new, touched, marks, armed) ==
    /\ gameStateRef' = new
    /\ playersNew' = FALSE
    /\ timerArmed' = timerEffect(gameStateRef, new, touched, armed)
    /\ fetches' = commentaryEffect(gameStateRef, new, fetches)
    /\ localMarked' = clearMarksEffect(gameStateRef, new, marks)
    /\ isGameConnectingRef' = isGameConnecting

(* An update made outside a user event (MQTT callback, interval, promise)   *)
(* is rendered later, in a turn of its own.                                 *)
Commit ==
    /\ gameState # gameStateRef \/ isGameConnecting # isGameConnectingRef
    /\ Render(gameState, playersNew, localMarked, timerArmed)
    /\ UNCHANGED <<gameState, rounds, session, published, retained>>

(* An update made in a click handler is rendered, and its effects are run,  *)
(* before the event returns.                                                *)
RenderNow(marks, armed) == Render(gameState', TRUE, marks, armed)

(* ---------------- game loop (host only) ---------------- *)
readyPlayers(s) ==
    {q \in Ids(s) : s.players[q].status = "playing" /\ s.players[q].isReady}

RECURSIVE SumCost(_, _)
SumCost(s, ids) ==
    IF ids = {} THEN 0
    ELSE LET q == CHOOSE x \in ids : TRUE
         IN s.players[q].sheetCount * s.betPrice + SumCost(s, ids \ {q})

startGameState(currentState) ==
    LET roundPot == SumCost(currentState, readyPlayers(currentState))
        updatedPlayers ==
          [q \in Ids(currentState) |->
             LET p == currentState.players[q]
             IN IF p.status = "playing"
                THEN IF p.isReady
                     THEN [p EXCEPT !.balance =
                              p.balance - p.sheetCount * currentState.betPrice]
                     ELSE [p EXCEPT !.status = "spectating"]
                ELSE p]
    IN [currentState EXCEPT
          !.players = updatedPlayers,
          !.status = "playing",
          !.mcCommentary = "start",
          !.pot = roundPot]

(* the start button is rendered for the host while the rendered room is     *)
(* waiting and has a ready player                                            *)
startGame ==
    /\ rounds < MaxRounds
    /\ gameStateRef.status = "waiting"
    /\ IsHostIn(gameStateRef)
    /\ readyPlayers(gameStateRef) # {}
    /\ gameState' = startGameState(gameStateRef)
    /\ rounds' = rounds + 1
    /\ publishState(gameState')
    /\ UNCHANGED session
    /\ RenderNow(localMarked, timerArmed)

(* the numbers not called yet, cut to the first max numbers *)
availableUpTo(s, max) ==
    {n \in 1..TOTAL_NUMBERS : n \notin SeqToSet(s.calledNumbers) /\ n <= max}

available(s) == availableUpTo(s, MaxNum)

(* one tick of the interval, drawing among the first max numbers *)
drawNumberUpTo(max) ==
    /\ timerArmed
    /\ gameStateRef.status = "playing"
    /\ Len(gameStateRef.calledNumbers) < TOTAL_NUMBERS
    /\ \E nextNum \in availableUpTo(gameStateRef, max) :
          gameState' = [gameStateRef EXCEPT
                          !.currentNumber = nextNum,
                          !.calledNumbers = Append(@, nextNum)]
    /\ playersNew' = FALSE
    /\ publishState(gameState')
    /\ UNCHANGED <<gameStateRef, localMarked, timerArmed, fetches, rounds,
                   session, isGameConnectingRef>>

drawNumber == drawNumberUpTo(MaxNum)

(* the commentary text arrives: written back unless another number is       *)
(* current by now                                                           *)
fetchCommentary ==
    \E n \in fetches :
       /\ fetches' = fetches \ {n}
       /\ IF gameStateRef.currentNumber # n
          THEN UNCHANGED <<gameState, playersNew, published, retained>>
          ELSE /\ gameState' = [gameStateRef EXCEPT !.mcCommentary = "mc"]
               /\ playersNew' = FALSE
               /\ publishState(gameState')
       /\ UNCHANGED <<gameStateRef, localMarked, timerArmed, rounds,
                      session, isGameConnectingRef>>

(* ---------------- user interaction ---------------- *)
sheetNumbers(sheets) ==
    UNION { numbersInRow(sheets[k].rows[r]) :
              k \in DOMAIN sheets, r \in 1..2 }

(* checkWaiting (utils/gameUtils): some row of some sheet lacks exactly one *)
(* mark                                                                     *)
checkWaiting(sheets, markedNumbers) ==
    \E k \in DOMAIN sheets : \E r \in DOMAIN sheets[k].rows :
        Cardinality(numbersInRow(sheets[k].rows[r]) \ markedNumbers) = 1

(* me.isWaiting !== isWaiting: whether the toggle is reported.  An entry    *)
(* modelled without the flag leaves both outcomes open.                     *)
markReported(me, isWaiting) ==
    IF "isWaiting" \in DOMAIN me
    THEN {me.isWaiting # isWaiting}
    ELSE BOOLEAN

(* { ...p, markedNumbers: newMarked, isWaiting: isWaiting } *)
withMarks(p, newMarked) ==
    IF "isWaiting" \in DOMAIN p
    THEN [p EXCEPT !.markedNumbers = newMarked,
                   !.isWaiting = checkWaiting(p.sheets, newMarked)]
    ELSE [p EXCEPT !.markedNumbers = newMarked]

(* the player clicks a number of its own sheets while the rendered room is  *)
(* playing; the host publishes the room, a guest sends MARK_UPDATE, either  *)
(* only when the about-to-win flag of its rendered entry is not the flag    *)
(* of the new marks                                                         *)
handleMarkNumber ==
    /\ gameStateRef.status = "playing"
    /\ playerId \in Ids(gameStateRef)
    /\ gameStateRef.players[playerId].status # "spectating"
    /\ \E num \in sheetNumbers(gameStateRef.players[playerId].sheets) :
          /\ num \in localMarked \/ num \in SeqToSet(gameStateRef.calledNumbers)
          /\ LET newMarked == IF num \in localMarked
                              THEN localMarked \ {num}
                              ELSE localMarked \cup {num}
                 me == gameStateRef.players[playerId]
                 isWaiting == checkWaiting(me.sheets, newMarked)
             IN /\ gameState' =
                     IF playerId \in Ids(gameState)
                     THEN [gameState EXCEPT
                             !.players[playerId] = withMarks(@, newMarked)]
                     ELSE gameState
                /\ RenderNow(newMarked, timerArmed)
                /\ \E flagChanged \in markReported(me, isWaiting) :
                      IF ~flagChanged THEN UNCHANGED <<published, retained>>
                      ELSE IF IsHostIn(gameStateRef)
                           THEN publishState(gameState')
                           ELSE publishCommand("MARK_UPDATE")
    /\ UNCHANGED <<rounds, session>>

(* the player presses the bingo button, rendered while the rendered room is *)
(* playing and the player is no spectator: the host ends the round itself,  *)
(* a guest sends BINGO_CLAIM                                                *)
handleKinhCall ==
    /\ gameStateRef.status = "playing"
    /\ playerId \in Ids(gameStateRef)
    /\ LET me == gameStateRef.players[playerId]
           winningRow == checkWinSheets(me.sheets, me.markedNumbers, 1)
       IN /\ me.status # "spectating"
          /\ winningRow # {}
          /\ IF IsHostIn(gameStateRef)
             THEN /\ gameState' = [gameStateRef EXCEPT
                        !.status = "ended",
                        !.winner = <<me>>,
                        !.winningNumbers = winningRow,
                        !.mcCommentary = "win",
                        !.pot = 0,
                        !.players[playerId].balance =
                            me.balance + gameStateRef.pot]
                  /\ publishState(gameState')
                  /\ RenderNow(localMarked, FALSE)
             ELSE /\ publishCommand("BINGO_CLAIM")
                  /\ UNCHANGED <<gameState, gameStateRef, playersNew,
                                 localMarked, timerArmed, fetches,
                                 isGameConnectingRef>>
    /\ UNCHANGED <<rounds, session>>

(* the new room with the readiness of each participant kept *)
resetGameStateKeepsReady(prev, myId) ==
    [prev EXCEPT
       !.status = "waiting",
       !.calledNumbers = <<>>,
       !.currentNumber = 0,
       !.winner = <<>>,
       !.winningNumbers = {},
       !.mcCommentary = "new",
       !.pot = 0,
       !.players = [q \in Ids(prev) |->
                      [prev.players[q] EXCEPT
                         !.markedNumbers = {},
                         !.status = "playing"]]]

(* the room resetGame makes of prev for the client with id myId *)
resetGameState(prev, myId) ==
    [prev EXCEPT
       !.status = "waiting",
       !.calledNumbers = <<>>,
       !.currentNumber = 0,
       !.winner = <<>>,
       !.winningNumbers = {},
       !.mcCommentary = "new",
       !.pot = 0,
       !.players = [q \in Ids(prev) |->
                      [prev.players[q] EXCEPT
                         !.markedNumbers = {},
                         !.isReady = (prev.players[q].id = myId),
                         !.status = "playing"]]]

(* the reset button is rendered for the host on the winner overlay *)
resetGame ==
    /\ gameStateRef.status = "ended"
    /\ gameStateRef.winner # <<>>
    /\ IsHostIn(gameStateRef)
    /\ gameState' = resetGameState(gameState, playerId)
    /\ publishState(gameState')
    /\ RenderNow(localMarked, timerArmed)
    /\ UNCHANGED <<rounds, session>>

(* the kick button is rendered for the host next to every other player in   *)
(* the waiting room                                                         *)
kickPlayer(targetPlayerId) ==
    /\ gameStateRef.status = "waiting"
    /\ IsHostIn(gameStateRef)
    /\ targetPlayerId \in Ids(gameStateRef) \ {playerId}
    /\ gameState' = [gameStateRef EXCEPT
                       !.players = RemovePlayer(@, targetPlayerId)]
    /\ publishState(gameState')
    /\ RenderNow(localMarked, timerArmed)
    /\ UNCHANGED <<rounds, session>>

(* the player's own entry is merged with changes in the pending room; the   *)
(* host publishes the room, a guest sends the changes as PLAYER_UPDATE      *)
updatePlayerLocallyAndBroadcast(changes) ==
    /\ gameState' =
         IF playerId \in Ids(gameState)
         THEN [gameState EXCEPT !.players[playerId] = Merge(@, changes)]
         ELSE gameState
    /\ published' =
         published
         \cup (IF IsHostIn(gameState) THEN {Snapshot} ELSE {})
         \cup (IF playerId \in Ids(gameStateRef) /\ ~IsHostIn(gameStateRef)
               THEN {Command("PLAYER_UPDATE")} ELSE {})
    /\ retained' = IF IsHostIn(gameState)
                   THEN <<Replicated(gameState')>> ELSE retained

(* the player toggles its own readiness in the waiting room *)
handleToggleReady ==
    /\ gameStateRef.status = "waiting"
    /\ playerId \in Ids(gameStateRef)
    /\ updatePlayerLocallyAndBroadcast(
          [isReady |-> ~gameStateRef.players[playerId].isReady])
    /\ RenderNow(localMarked, timerArmed)
    /\ UNCHANGED <<rounds, session>>

(* the shuffle button is rendered on each own sheet in the waiting room     *)
(* while the player is not ready                                            *)
handleShuffleSheet(index) ==
    /\ gameStateRef.status = "waiting"
    /\ playerId \in Ids(gameStateRef)
    /\ ~gameStateRef.players[playerId].isReady
    /\ index \in DOMAIN gameStateRef.players[playerId].sheets
    /\ \E t \in generateTicket :
          updatePlayerLocallyAndBroadcast(
             [sheets |-> [gameStateRef.players[playerId].sheets
                            EXCEPT ![index] = t],
              markedNumbers |-> {}])
    /\ RenderNow({}, timerArmed)
    /\ UNCHANGED <<rounds, session>>

(* the bet price input is rendered for the host in the waiting room *)
handleUpdateBetPrice(newPrice) ==
    /\ IsHostIn(gameStateRef)
    /\ gameStateRef.status = "waiting"
    /\ gameState' = [gameState EXCEPT !.betPrice = newPrice]
    /\ publishState(gameState')
    /\ RenderNow(localMarked, timerArmed)
    /\ UNCHANGED <<rounds, session>>

Next ==
    \/ createRoom
    \/ \E data \in Commands : handleHostMessage(data)
    \/ Commit
    \/ startGame
    \/ drawNumber
    \/ fetchCommentary
    \/ handleMarkNumber
    \/ handleKinhCall
    \/ resetGame


Spec == Init /\ [][Next]_vars

(* the round with one guest: the commands of g1 *)
ClaimCommands ==
    { d \in Commands :
        IF d.type = "JOIN_REQUEST" THEN d.player.id = "g1"
        ELSE d.playerId = "g1" }

NextClaim ==
    \/ createRoom
    \/ \E data \in ClaimCommands : handleHostMessage(data)
    \/ Commit
    \/ startGame
    \/ drawNumber
    \/ fetchCommentary
    \/ handleMarkNumber
    \/ handleKinhCall
    \/ resetGame

SpecClaim == Init /\ [][NextClaim]_vars

NextLobby ==
    \/ createRoom
    \/ \E targetPlayerId \in Guests : kickPlayer(targetPlayerId)
    \/ \E data \in LobbyCommands : handleHostMessage(data)
    \/ Commit
    \/ startGame
    \/ handleToggleReady

SpecLobby == Init /\ [][NextLobby]_vars

(* ---------------- a guest client ---------------- *)
(* a Snapshot arrives on the host topic of a client that joined: dropped    *)
(* when it does not hold the player; else it replaces the room, the own     *)
(* marks being the local ones once the join was confirmed                   *)
(* every player keeps the local marks *)
hydratedPlayersAllLocal(remoteState) ==
    [q \in Ids(remoteState) |->
       [remoteState.players[q] EXCEPT
          !.markedNumbers = IF ~isGameConnectingRef
                            THEN localMarked
                            ELSE SeqToSet(@)]]

(* this client keeps the local marks, connecting or not *)
hydratedPlayersOwnLocal(remoteState) ==
    [q \in Ids(remoteState) |->
       [remoteState.players[q] EXCEPT
          !.markedNumbers = IF q = playerId
                            THEN localMarked
                            ELSE SeqToSet(@)]]

(* every player takes the marks of the server *)
hydratedPlayersAllServer(remoteState) ==
    [q \in Ids(remoteState) |->
       [remoteState.players[q] EXCEPT !.markedNumbers = SeqToSet(@)]]

(* the players of the parsed room: serverMarks for everyone, the local     *)
(* marks for this client once it is no longer connecting                    *)
hydratedPlayers(remoteState) ==
    [q \in Ids(remoteState) |->
       [remoteState.players[q] EXCEPT
          !.markedNumbers = IF q = playerId /\ ~isGameConnectingRef
                            THEN localMarked
                            ELSE SeqToSet(@)]]

(* the timer fires and the client stays connected *)
onJoinTimeoutKeepsClient ==
    /\ joinTimeout
    /\ joinTimeout' = FALSE
    /\ IF isGameConnectingRef
       THEN /\ connectionError' = "join timeout"
            /\ isGameConnecting' = FALSE
            /\ UNCHANGED gameClientOpen
       ELSE UNCHANGED <<connectionError, isGameConnecting, gameClientOpen>>
    /\ UNCHANGED <<gameState, gameStateRef, playersNew, localMarked,
                   timerArmed, fetches, rounds, playerId,
                   isGameConnectingRef, published, retained>>

(* the callback of the timer joinRoom starts: 15 s have passed and no      *)
(* message has cleared it                                                   *)
onJoinTimeout ==
    /\ joinTimeout
    /\ joinTimeout' = FALSE
    /\ IF isGameConnectingRef
       THEN /\ connectionError' = "join timeout"
            /\ isGameConnecting' = FALSE
            /\ gameClientOpen' = FALSE
       ELSE UNCHANGED <<connectionError, isGameConnecting, gameClientOpen>>
    /\ UNCHANGED <<gameState, gameStateRef, playersNew, localMarked,
                   timerArmed, fetches, rounds, playerId,
                   isGameConnectingRef, published, retained>>

(* the roster is not looked at *)
amInListAlways(remoteState) == TRUE

(* the client finds its own id in the roster of the parsed room *)
amInList(remoteState) == playerId \in Ids(remoteState)

(* a message on the host topic; any message clears the join timer *)
handleGuestMessage(remoteState) ==
    /\ playerId \in Guests
    /\ gameClientOpen
    /\ joinTimeout' = FALSE
    /\ IF ~amInList(remoteState)
       THEN UNCHANGED <<gameState, playersNew, isGameConnecting, localMarked>>
       ELSE /\ gameState' =
                 [remoteState EXCEPT !.players = hydratedPlayers(remoteState)]
            /\ playersNew' = TRUE
            /\ isGameConnecting' =
                 IF isGameConnectingRef THEN FALSE ELSE isGameConnecting
            /\ localMarked' =
                 IF isGameConnectingRef /\ playerId \in Ids(remoteState)
                 THEN hydratedPlayers(remoteState)[playerId].markedNumbers
                 ELSE localMarked
    /\ UNCHANGED <<gameStateRef, timerArmed, fetches, rounds, playerId,
                   isGameConnectingRef, connectionError, gameClientOpen,
                   published, retained>>

(* the player entry joinRoom sends *)
joinPayload(g, t) ==
    [ type |-> "JOIN_REQUEST",
      player |-> [ id |-> g, isHost |-> FALSE, sheets |-> <<t>>,
                   markedNumbers |-> {}, isReady |-> FALSE, balance |-> 0,
                   sheetCount |-> 1, status |-> "playing" ] ]

(* rooms a host publishes in a round with the guest g1: created, joined,    *)
(* ready, started, number 1 drawn, number 1 marked, bingo accepted, and     *)
(* number 1 marked by the host instead                                      *)
PublishedRooms ==
    LET s0 == [INITIAL_STATE EXCEPT
                 !.players = AddPlayer(<<>>, hostPlayer),
                 !.status = "waiting",
                 !.mcCommentary = "welcome"]
        s1 == onJoinRequest(s0, joinPayload("g1", TicketA)).state
        s2 == onPlayerUpdate(s1, [type |-> "PLAYER_UPDATE", playerId |-> "g1",
                                  changes |-> [isReady |-> TRUE]]).state
        s3 == startGameState(s2)
        s4 == [s3 EXCEPT !.currentNumber = 1, !.calledNumbers = <<1>>]
        s5 == onMarkUpdate(s4, [type |-> "MARK_UPDATE", playerId |-> "g1",
                                markedNumbers |-> {1}]).state
        s6 == onBingoClaim(s5, [type |-> "BINGO_CLAIM", playerId |-> "g1",
                                markedNumbers |-> {1}]).state
        s7 == [s4 EXCEPT !.players[HostId].markedNumbers = {1}]
    IN {s0, s1, s2, s3, s4, s5, s6, s7}

(* what arrives on the host topic *)
Snapshots == {serialize(state) : state \in PublishedRooms}

(* The host stores marks for a player only after a MARK_UPDATE of that      *)
(* player: a Snapshot holding marks of this client follows one.             *)
Deliverable(remoteState) ==
    (playerId \in Ids(remoteState)
       /\ remoteState.players[playerId].markedNumbers # <<>>)
    => Command("MARK_UPDATE") \in published

BetPrices == {DefaultBetPrice, 2 * DefaultBetPrice}

ClientCommands == {joinPayload("g1", TicketA)}

(* a client that either creates the room or joins it *)
NextClient ==
    \/ createRoom
    \/ joinRoom("g1")
    \/ \E remoteState \in Snapshots :
          Deliverable(remoteState) /\ handleGuestMessage(remoteState)
    \/ onJoinTimeout
    \/ \E data \in ClientCommands : handleHostMessage(data)
    \/ Commit
    \/ startGame
    \/ drawNumber
    \/ fetchCommentary
    \/ handleMarkNumber
    \/ handleKinhCall
    \/ resetGame
    \/ \E targetPlayerId \in Guests : kickPlayer(targetPlayerId)
    \/ handleToggleReady
    \/ \E index \in 1..1 : handleShuffleSheet(index)
    \/ \E newPrice \in BetPrices : handleUpdateBetPrice(newPrice)

SpecClient == Init /\ [][NextClient]_vars

(* The same client with what its scheduling guarantees: a pending join     *)
(* timer fires (setTimeout) and a pending update is rendered.  Nothing      *)
(* guarantees a further message on the host topic: the host may be gone.    *)
SpecJoin ==
    SpecClient /\ WF_vars(onJoinTimeout) /\ WF_vars(Commit)

(* The connect callback createRoom hands to setupMqttClient, run again:    *)
(* the client reconnects by itself (reconnectPeriod) and emits connect on   *)
(* every connection made, so after a lost connection the callback builds    *)
(* the room of a new host, stores it, subscribes and publishes it.          *)
onConnect ==
    /\ playerId = HostId
    /\ gameClientOpen
    /\ gameState.status # "lobby"
    /\ isGameConnecting' = FALSE
    /\ gameState' = [INITIAL_STATE EXCEPT
                        !.players = AddPlayer(<<>>, hostPlayer),
                        !.status = "waiting",
                        !.mcCommentary = "welcome"]
    /\ publishState(gameState')
    /\ playersNew' = TRUE
    /\ UNCHANGED <<gameStateRef, localMarked, timerArmed, fetches, rounds,
                   playerId, isGameConnectingRef, connectionError,
                   joinTimeout, gameClientOpen>>

(* a host whose connection drops and comes back during a round *)
NextReconnect ==
    \/ createRoom
    \/ \E data \in ClientCommands : handleHostMessage(data)
    \/ Commit
    \/ startGame
    \/ drawNumber
    \/ fetchCommentary
    \/ handleMarkNumber
    \/ handleToggleReady
    \/ handleKinhCall
    \/ resetGame
    \/ \E newPrice \in BetPrices : handleUpdateBetPrice(newPrice)
    \/ onConnect

SpecReconnect == Init /\ [][NextReconnect]_vars

(* The entries of a room with the about-to-win flag the host holds for     *)
(* them (isWaiting: false in the join payload and in hostPlayer, the flag   *)
(* of the last MARK_UPDATE afterwards)                                      *)
withWaiting(state, waiting) ==
    [state EXCEPT
       !.players = [q \in Ids(state) |->
                      [f \in DOMAIN state.players[q] \cup {"isWaiting"} |->
                         IF f = "isWaiting" THEN q \in waiting
                         ELSE state.players[q][f]]]]

(* rooms a host publishes in a round with the guest g1 on TicketC, the      *)
(* numbers 1, 3 and then 4 drawn: the waiting room, the round before the    *)
(* host handles a MARK_UPDATE of g1, and the round after MARK_UPDATE        *)
(* {markedNumbers: [1], isWaiting: true}                                    *)
MarkRooms ==
    LET s0 == [INITIAL_STATE EXCEPT
                 !.players = AddPlayer(<<>>, hostPlayer),
                 !.status = "waiting",
                 !.mcCommentary = "welcome"]
        s1 == onJoinRequest(s0, joinPayload("g1", TicketC)).state
        s2 == onPlayerUpdate(s1, [type |-> "PLAYER_UPDATE", playerId |-> "g1",
                                  changes |-> [isReady |-> TRUE]]).state
        s3 == [startGameState(s2) EXCEPT
                 !.currentNumber = 3, !.calledNumbers = <<1, 3>>]
        s4 == onMarkUpdate(s3, [type |-> "MARK_UPDATE", playerId |-> "g1",
                                markedNumbers |-> {1}]).state
        s5 == [s4 EXCEPT !.currentNumber = 4, !.calledNumbers = <<1, 3, 4>>]
    IN { withWaiting(s2, {}), withWaiting(s3, {}), withWaiting(s4, {"g1"}),
         withWaiting(s5, {"g1"}) }

MarkSnapshots == {serialize(state) : state \in MarkRooms}

(* a guest marking its sheet while rooms of the host arrive *)
NextMark ==
    \/ joinRoom("g1")
    \/ \E remoteState \in MarkSnapshots :
          Deliverable(remoteState) /\ handleGuestMessage(remoteState)
    \/ Commit
    \/ handleMarkNumber
    \/ handleKinhCall

SpecMark == Init /\ [][NextMark]_vars

(* rooms a host publishes over two rounds with the guest g1: g1 joined,     *)
(* the first round started with g1 ready, number 1 drawn, g1's claim        *)
(* accepted, the room reset, the second round started by the host at once  *)
(* (g1, not ready, becomes a spectator), number 3 drawn                     *)
RoundSeq ==
    LET ready == [type |-> "PLAYER_UPDATE", playerId |-> "g1",
                  changes |-> [isReady |-> TRUE]]
        s0 == [INITIAL_STATE EXCEPT
                 !.players = AddPlayer(<<>>, hostPlayer),
                 !.status = "waiting",
                 !.mcCommentary = "welcome"]
        s1 == onJoinRequest(s0, joinPayload("g1", TicketA)).state
        s2 == onPlayerUpdate(s1, ready).state
        s3 == startGameState(s2)
        s4 == [s3 EXCEPT !.currentNumber = 1, !.calledNumbers = <<1>>]
        s5 == onBingoClaim(s4, [type |-> "BINGO_CLAIM", playerId |-> "g1",
                                markedNumbers |-> {1}]).state
        s6 == resetGameState(s5, HostId)
        s7 == startGameState(s6)
        s8 == [s7 EXCEPT !.currentNumber = 3, !.calledNumbers = <<3>>]
    IN <<s1, s3, s4, s5, s6, s7, s8>>

RoundSnapshot(i) == serialize(RoundSeq[i])

(* what tells the rooms of RoundSeq apart *)
RoundKey(state) ==
    <<state.status, state.calledNumbers, state.pot, state.mcCommentary>>

(* the room the client holds is the i-th of the rooms, its roster aside *)
Received(i) == RoundKey(gameState) = RoundKey(RoundSeq[i])

(* the topic delivers in the order of publication: what arrives is later    *)
(* than the room the client holds                                           *)
Later(i) == \A j \in i..Len(RoundSeq) : ~Received(j)

(* the host publishes g1 ready after g1's PLAYER_UPDATE, and g1's win after *)
(* g1's BINGO_CLAIM                                                         *)
Caused(i) ==
    /\ i >= 2 => Command("PLAYER_UPDATE") \in published
    /\ i >= 4 => Command("BINGO_CLAIM") \in published

(* a guest over two rounds; a Snapshot may be missed (QoS 0), or replaced   *)
(* by the next one before it is rendered                                    *)
NextRounds ==
    \/ joinRoom("g1")
    \/ \E i \in DOMAIN RoundSeq :
          /\ Later(i)
          /\ Caused(i)
          /\ Deliverable(RoundSnapshot(i))
          /\ handleGuestMessage(RoundSnapshot(i))
    \/ Commit
    \/ handleToggleReady
    \/ handleMarkNumber
    \/ handleKinhCall

SpecRounds == Init /\ [][NextRounds]_vars

(* a guest and whatever room arrives on the host topic, in any order: the   *)
(* handler's inputs are not restricted to what one host would send          *)
NextHydrate ==
    \/ joinRoom("g1")
    \/ \E remoteState \in Snapshots : handleGuestMessage(remoteState)
    \/ Commit
    \/ handleMarkNumber
    \/ handleToggleReady

SpecHydrate == Init /\ [][NextHydrate]_vars

(* ---------------- commands of any publisher ---------------- *)
(* The client topic is open: what arrives need not come from joinRoom,     *)
(* leaveRoom or the handlers of a guest.                                    *)
UnknownId == "ghost"

ForgedCommands ==
    { [type |-> "PLAYER_LEAVE", playerId |-> HostId],
      [type |-> "PLAYER_UPDATE", playerId |-> "g1",
       changes |-> [isHost |-> TRUE]],
      [ type |-> "JOIN_REQUEST",
        player |-> [ id |-> "g2", isHost |-> TRUE, sheets |-> <<TicketA>>,
                     markedNumbers |-> {}, isReady |-> FALSE, balance |-> 0,
                     sheetCount |-> 1, status |-> "playing" ] ] }

MalformedCommands ==
    { [raw |-> "no json"],
      [type |-> "NO_SUCH_TYPE", playerId |-> "g1"],
      [type |-> "JOIN_REQUEST"],
      [type |-> "MARK_UPDATE", playerId |-> "g1"],
      [type |-> "PLAYER_UPDATE", playerId |-> "g1"],
      [type |-> "BINGO_CLAIM", playerId |-> "g1"],
      [type |-> "PLAYER_LEAVE", playerId |-> UnknownId],
      [type |-> "MARK_UPDATE", playerId |-> UnknownId, markedNumbers |-> {1}],
      [type |-> "PLAYER_UPDATE", playerId |-> UnknownId,
       changes |-> [isReady |-> TRUE]],
      [type |-> "BINGO_CLAIM", playerId |-> UnknownId, markedNumbers |-> {1}] }

WireCommands ==
    {d \in RoundJoinPayloads : d.player.id = "g1"}
    \cup {d \in MarkUpdatePayloads : d.playerId = "g1"}
    \cup {d \in ReadyPayloads : d.playerId = "g1"}
    \cup ForgedCommands \cup MalformedCommands

(* the commands of a client that follows joinRoom and the handlers, and    *)
(* two that name a balance: a JOIN_REQUEST whose player carries one and a   *)
(* PLAYER_UPDATE whose changes carry one                                    *)
LedgerCommands ==
    {d \in RoundJoinPayloads : d.player.id = "g1"}
    \cup {d \in ReadyPayloads : d.playerId = "g1"}
    \cup {d \in MarkUpdatePayloads : d.playerId = "g1"}
    \cup { [ type |-> "JOIN_REQUEST",
             player |-> [ id |-> "g2", isHost |-> FALSE, sheets |-> <<TicketA>>,
                          markedNumbers |-> {}, isReady |-> FALSE,
                          balance |-> 5 * DefaultBetPrice,
                          sheetCount |-> 1, status |-> "playing" ] ],
           [ type |-> "PLAYER_UPDATE", playerId |-> "g1",
             changes |-> [balance |-> 5 * DefaultBetPrice] ] }

NextLedger ==
    \/ createRoom
    \/ \E data \in LedgerCommands : handleHostMessage(data)
    \/ Commit
    \/ startGame

SpecLedger == Init /\ [][NextLedger]_vars

NextWire ==
    \/ createRoom
    \/ \E data \in WireCommands : handleHostMessage(data)
    \/ Commit
    \/ startGame

SpecWire == Init /\ [][NextWire]_vars

(* ---------------- a round with several draws ---------------- *)
(* one tick of the interval in a round whose numbers are 1..MaxDraw *)
drawNumberTick == drawNumberUpTo(MaxDraw)

DrawCommands ==
    {d \in RoundJoinPayloads : d.player.id = "g1"}
    \cup {d \in MarkUpdatePayloads : d.playerId = "g1"}

NextDraw ==
    \/ createRoom
    \/ \E data \in DrawCommands : handleHostMessage(data)
    \/ Commit
    \/ startGame
    \/ drawNumberTick
    \/ fetchCommentary

SpecDraw == Init /\ [][NextDraw]_vars

(* ---------------- a kicked participant ---------------- *)
(* The room of a host after createRoom and the join of g1, rendered: the    *)
(* user of g1 has joined once and does not join again.                      *)
KickInit ==
    /\ gameState = RoundSeq[1]
    /\ gameStateRef = RoundSeq[1]
    /\ playersNew = FALSE
    /\ localMarked = {}
    /\ timerArmed = FALSE
    /\ fetches = {}
    /\ rounds = 0
    /\ playerId = HostId
    /\ isGameConnecting = FALSE
    /\ isGameConnectingRef = FALSE
    /\ connectionError = ""
    /\ joinTimeout = FALSE
    /\ gameClientOpen = TRUE
    /\ published = {Snapshot}
    /\ retained = <<Replicated(RoundSeq[1])>>

(* what the client of g1 sends without its user joining again: the          *)
(* JOIN_REQUEST of the connect callback, run again on every reconnection    *)
(* of the transport, and the commands of a room it still shows              *)
KickedCommands ==
    {d \in JoinPayloads : d.player.id = "g1" /\ ~d.player.isReady}
    \cup {d \in PlayerUpdatePayloads : d.playerId = "g1"}
    \cup {d \in MarkUpdatePayloads : d.playerId = "g1"}

NextKick ==
    \/ kickPlayer("g1")
    \/ \E data \in KickedCommands : handleHostMessage(data)
    \/ Commit
    \/ handleToggleReady
    \/ startGame
    \/ drawNumber

SpecKick == KickInit /\ [][NextKick]_vars

(* ---------------- checkWin over tickets and marks ---------------- *)
(* tickets of two rows of two cells over the numbers 1..MaxCell (0 = blank, *)
(* rows without a number included) and marks over 1..MaxCell + 1, a number  *)
(* that is on no ticket                                                     *)
WinRows == [1..2 -> 0..MaxCell]

WinTickets == {[id |-> "tW", rows |-> <<r1, r2>>] : r1 \in WinRows, r2 \in WinRows}

WinMarks == SUBSET (1..(MaxCell + 1))

(* the room of a host in a round with the guest g1, whose sheet is the one  *)
(* its JOIN_REQUEST carried and whose marks are the ones it reported, both  *)
(* stored as sent                                                           *)
WinRoom(ticket, markedNumbers) ==
    LET joined == [joinPayload("g1", ticket) EXCEPT !.player.isReady = TRUE]
        s0 == [INITIAL_STATE EXCEPT
                 !.players = AddPlayer(<<>>, hostPlayer),
                 !.status = "waiting",
                 !.mcCommentary = "welcome"]
        s1 == onJoinRequestAsSent(s0, joined).state
        s2 == startGameState(s1)
    IN [s2 EXCEPT !.players["g1"].markedNumbers = markedNumbers]

WinInit ==
    /\ \E ticket \in WinTickets, markedNumbers \in WinMarks :
          /\ gameState = WinRoom(ticket, markedNumbers)
          /\ gameStateRef = gameState
          /\ retained = <<Replicated(gameState)>>
    /\ playersNew = FALSE
    /\ localMarked = {}
    /\ timerArmed = TRUE
    /\ fetches = {}
    /\ rounds = 1
    /\ playerId = HostId
    /\ isGameConnecting = FALSE
    /\ isGameConnectingRef = FALSE
    /\ connectionError = ""
    /\ joinTimeout = FALSE
    /\ gameClientOpen = TRUE
    /\ published = {Snapshot}

(* g1 calls bingo with the marks it reported *)
WinCommands ==
    IF "g1" \in Ids(gameStateRef)
    THEN {[type |-> "BINGO_CLAIM", playerId |-> "g1",
           markedNumbers |-> gameStateRef.players["g1"].markedNumbers]}
    ELSE {}

NextWin ==
    \/ \E data \in WinCommands : handleHostMessage(data)
    \/ Commit
    \/ resetGame

SpecWin == WinInit /\ [][NextWin]_vars

(* ---------------- the interval of the draw, over time ---------------- *)
(* a render whose effect clears the interval and sets a new one: the        *)
(* interval was live, an input of the effect differs and the condition      *)
(* still holds, so the period of CALL_INTERVAL_MS starts again              *)
restartInterval ==
    /\ Commit
    /\ timerArmed
    /\ \/ gameState.status # gameStateRef.status
       \/ gameState.winner # gameStateRef.winner
       \/ playersNew
    /\ timerCondition(gameState)

(* Pending renders and pending commentary are run.  A live interval calls   *)
(* drawNumber once its period has passed: it is owed a tick only when, from *)
(* some time on, no render starts its period again.                         *)
SpecTimer ==
    /\ SpecDraw
    /\ WF_vars(Commit)
    /\ WF_vars(fetchCommentary)
    /\ (WF_vars(drawNumberTick) \/ []<><<restartInterval>>_vars)

(* ======================= claims ======================= *)

(* the handler accepts the claim: it calls setGameState with a winner *)
Accepted(data) == hostMessageResult(gameStateRef, data).update

RowsOf(sheets) ==
    { sheets[k].rows[r] : k \in DOMAIN sheets, r \in 1..2 }

(* C1: the host accepts a BINGO_CLAIM only if some row of the claimant's    *)
(* sheets has every one of its numbers in the host's calledNumbers.         *)
C1_ClaimNeedsCalledRow ==
    [][\A data \in BingoClaimPayloads :
          (Accepted(data) /\ handleHostMessage(data))
          => /\ data.playerId \in Ids(gameState)
             /\ \E row \in RowsOf(gameState.players[data.playerId].sheets) :
                    RowWins(row, SeqToSet(gameState.calledNumbers))]_vars

ValidClaim(s, data) ==
    /\ data.playerId \in Ids(s)
    /\ s.players[data.playerId].status = "playing"
    /\ \E row \in RowsOf(s.players[data.playerId].sheets) :
          RowWins(row, SeqToSet(s.calledNumbers) \cap data.markedNumbers)

(* C3: of two valid claims of distinct guests the first one handled wins:   *)
(* once the claim of one guest has ended the round, handling the valid      *)
(* claim of another guest changes nothing in the room (winner,              *)
(* winningNumbers, balances and pot stay).                                  *)
C3_SecondClaimIsNoOp ==
    [][\A data \in BingoClaimPayloads :
          ( /\ gameState.status = "ended"
            /\ gameState.winner # <<>>
            /\ gameState.winner[1].id \in Guests \ {data.playerId}
            /\ gameState.winner[1].status = "playing"
            /\ gameState.winningNumbers
                  \subseteq SeqToSet(gameState.calledNumbers)
            /\ ValidClaim(gameState, data)
            /\ handleHostMessage(data) )
          => gameState' = gameState]_vars

(* the room a command leaves when it is applied to the room s *)
Applied(s, data) ==
    LET r == hostMessageResult(s, data)
    IN IF r.update THEN r.state ELSE s

(* C4: every host handler applies its event to the room left by the         *)
(* previous event: a command, a start, a draw tick, a bingo call of the     *)
(* host and a commentary write-back each leave the room the handler         *)
(* computes from the current canonical room.                                *)
C4_HandlersApplyToCurrentRoom ==
    [][ /\ \A data \in Commands :
              handleHostMessage(data) => gameState' = Applied(gameState, data)
        /\ startGame => gameState' = startGameState(gameState)
        /\ drawNumber => \E nextNum \in available(gameState) :
              gameState' = [gameState EXCEPT
                              !.currentNumber = nextNum,
                              !.calledNumbers = Append(@, nextNum)]
        /\ handleKinhCall =>
              /\ gameState'.players = [gameState.players EXCEPT
                    ![HostId].balance = @ + gameState.pot]
              /\ gameState'.calledNumbers = gameState.calledNumbers
        /\ (fetchCommentary /\ gameState' # gameState) =>
              gameState' = [gameState EXCEPT !.mcCommentary = "mc"] ]_vars

(* C5: once winner is set, no step other than the host's reset replaces or  *)
(* clears it or takes status away from ended.                               *)
C5_WinnerImmutableUntilReset ==
    [][(gameState.winner # <<>> /\ ~resetGame)
          => /\ gameState'.winner # <<>>
             /\ gameState'.winner[1].id = gameState.winner[1].id
             /\ gameState'.status = "ended"]_vars

ActiveReady(s) == readyPlayers(s)

(* C6: when the host starts a round, every active and ready participant is  *)
(* debited sheetCount * betPrice and pot is the sum of those debits.        *)
C6_StartDebitsReadyPlayers ==
    [][startGame =>
          /\ \A q \in ActiveReady(gameState) :
                /\ q \in Ids(gameState')
                /\ gameState'.players[q].balance =
                     gameState.players[q].balance
                       - gameState.players[q].sheetCount * gameState.betPrice
          /\ gameState'.pot = SumCost(gameState, ActiveReady(gameState))]_vars

(* the payout of the pot of the room s to the participant w *)
PaidOut(s, t, w) ==
    /\ w \in Ids(s)
    /\ Ids(t) = Ids(s)
    /\ t.pot = 0
    /\ \A q \in Ids(s) :
          t.players[q].balance =
             IF q = w THEN s.players[q].balance + s.pot
                      ELSE s.players[q].balance

(* C7: when a win is accepted (a guest's claim or the host's own call), the *)
(* winner's balance grows by the pot, pot becomes 0 and no other balance    *)
(* changes.                                                                 *)
C7_WinPaysPotToWinner ==
    [][ /\ \A data \in BingoClaimPayloads :
              (Accepted(data) /\ handleHostMessage(data))
              => PaidOut(gameState, gameState', data.playerId)
        /\ handleKinhCall => PaidOut(gameState, gameState', HostId) ]_vars

(* C8: a JOIN_REQUEST accepted while status is playing seats the            *)
(* participant as a spectator that is not ready.                            *)
C8_LateJoinIsSpectator ==
    [][\A data \in JoinPayloads :
          ( /\ gameState.status = "playing"
            /\ data.player.id \notin Ids(gameState)
            /\ handleHostMessage(data)
            /\ data.player.id \in Ids(gameState') )
          => /\ gameState'.players[data.player.id].status = "spectating"
             /\ gameState'.players[data.player.id].isReady = FALSE]_vars

(* a guest whose JOIN_REQUEST the host has just accepted in a playing room  *)
(* (the join is not rendered yet) sits there as a spectator that is not     *)
(* ready                                                                    *)
C8_Witness ==
    /\ gameState.status = "playing"
    /\ gameStateRef.status = "playing"
    /\ \E g \in Guests :
          /\ g \in Ids(gameState)
          /\ g \notin Ids(gameStateRef)
          /\ gameState.players[g].status = "spectating"
          /\ ~gameState.players[g].isReady

(* C9: a JOIN_REQUEST whose id is already in the roster leaves the room     *)
(* unchanged.                                                               *)
C9_DuplicateJoinRejected ==
    [][\A data \in JoinPayloads :
          (data.player.id \in Ids(gameState) /\ handleHostMessage(data))
          => gameState' = gameState]_vars

ChangesSheets(changes) ==
    "sheets" \in DOMAIN changes \/ "sheetCount" \in DOMAIN changes

(* C10: a PLAYER_UPDATE that would alter the sheet composition of a         *)
(* participant that is ready at the host (in the canonical room, which is   *)
(* also the room the handler works on) leaves its sheets and sheetCount as  *)
(* they were.                                                               *)
C10_ReadyFreezesSheets ==
    [][\A data \in PlayerUpdatePayloads :
          ( /\ gameStateRef = gameState
            /\ data.playerId \in Ids(gameState)
            /\ gameState.players[data.playerId].isReady
            /\ ChangesSheets(data.changes)
            /\ handleHostMessage(data) )
          => /\ data.playerId \in Ids(gameState')
             /\ gameState'.players[data.playerId].sheets
                  = gameState.players[data.playerId].sheets
             /\ gameState'.players[data.playerId].sheetCount
                  = gameState.players[data.playerId].sheetCount]_vars

(* C11: in every host state the marks the host has stored for a participant *)
(* are among the room's calledNumbers.                                      *)
C11_MarksWithinCalled ==
    \A q \in Ids(gameState) :
       gameState.players[q].markedNumbers
          \subseteq SeqToSet(gameState.calledNumbers)

(* C12: once the room is created, exactly one participant of the roster has *)
(* isHost true, and it is the creator of the room.                          *)
C12_ExactlyOneHost ==
    gameState.status # "lobby"
       => {q \in Ids(gameState) : gameState.players[q].isHost} = {HostId}

(* a well-formed sequence of called numbers: no duplicate, numbers of       *)
(* 1..TOTAL_NUMBERS, at most TOTAL_NUMBERS entries                          *)
CalledOk(c) ==
    /\ Len(c) <= TOTAL_NUMBERS
    /\ \A i \in DOMAIN c : c[i] \in 1..TOTAL_NUMBERS
    /\ \A i, j \in DOMAIN c : c[i] = c[j] => i = j

(* the sequence c with one number appended that was not in c *)
AppendsFresh(c, d) ==
    /\ Len(d) = Len(c) + 1
    /\ SubSeq(d, 1, Len(c)) = c
    /\ d[Len(d)] \notin SeqToSet(c)

(* C13: calledNumbers is always well formed, and each draw appends to the   *)
(* room's calledNumbers one number that was not in it.                      *)
C13_DrawAppendsFreshNumber ==
    [][ /\ CalledOk(gameState'.calledNumbers)
        /\ drawNumberTick =>
             AppendsFresh(gameState.calledNumbers, gameState'.calledNumbers)
      ]_vars

(* the part of C13 that is a state invariant *)
C13_CalledWellFormed == CalledOk(gameState.calledNumbers)

IsPrefix(c, d) == Len(c) <= Len(d) /\ SubSeq(d, 1, Len(c)) = c

(* C14: during a round calledNumbers only grows: across every step that     *)
(* starts in a playing room and stays in the round (or ends it) the         *)
(* previous calledNumbers is a prefix of the new one.                       *)
C14_CalledOnlyGrows ==
    [][ ( /\ gameState.status = "playing"
          /\ gameState'.status \in {"playing", "ended"} )
        => IsPrefix(gameState.calledNumbers, gameState'.calledNumbers) ]_vars

(* C15: the draw interval is armed when the host starts a round; whenever   *)
(* the room is not playing no interval is armed, and a step from a room     *)
(* that is not playing adds no number to calledNumbers.                     *)
C15_TimerOnlyWhilePlaying ==
    [][ /\ startGame => timerArmed'
        /\ gameState'.status # "playing" => ~timerArmed'
        /\ gameState.status # "playing"
              => IsPrefix(gameState'.calledNumbers, gameState.calledNumbers)
      ]_vars

(* a round in which a number was drawn has ended with a winner and the      *)
(* interval is cancelled                                                    *)
C15_Witness ==
    /\ gameState.status = "ended"
    /\ gameState.winner # <<>>
    /\ gameState.calledNumbers # <<>>
    /\ ~timerArmed

StatusTransitions ==
    { <<"lobby", "waiting">>, <<"waiting", "playing">>,
      <<"playing", "ended">>, <<"ended", "waiting">> }

(* C16: the room status changes only along lobby -> waiting,                *)
(* waiting -> playing, playing -> ended and ended -> waiting.               *)
C16_StatusTransitions ==
    [][ gameState'.status # gameState.status
          => <<gameState.status, gameState'.status>> \in StatusTransitions
      ]_vars

ActiveNotReady(s) ==
    {q \in Ids(s) : s.players[q].status = "playing" /\ ~s.players[q].isReady}

(* C17: a start turns every active participant that is not ready into a     *)
(* spectator with its balance unchanged, and pot is made of the stakes of   *)
(* the ready ones only.                                                     *)
C17_StartDemotesNotReady ==
    [][startGame =>
          /\ gameState'.status = "playing"
          /\ \A q \in ActiveNotReady(gameState) :
                /\ q \in Ids(gameState')
                /\ gameState'.players[q].status = "spectating"
                /\ gameState'.players[q].balance = gameState.players[q].balance
          /\ gameState'.pot = SumCost(gameState, readyPlayers(gameState))]_vars

(* C18: handling PLAYER_LEAVE removes the named participant from the roster *)
(* and leaves every other participant and status, calledNumbers,            *)
(* currentNumber, pot and betPrice as they were.                            *)
C18_LeaveRemovesOnlyLeaver ==
    [][\A data \in LeavePayloads :
          handleHostMessage(data)
          => /\ gameState'.players
                  = RemovePlayer(gameState.players, data.playerId)
             /\ gameState'.status = gameState.status
             /\ gameState'.calledNumbers = gameState.calledNumbers
             /\ gameState'.currentNumber = gameState.currentNumber
             /\ gameState'.pot = gameState.pot
             /\ gameState'.betPrice = gameState.betPrice]_vars

(* C19: a command that is no JSON, has an unknown type, lacks a required    *)
(* field or names an id that is not in the roster is dropped: handled in a  *)
(* room whose last update is rendered, it leaves the room as it was.        *)
C19_MalformedCommandDropped ==
    [][\A data \in MalformedCommands :
          (gameStateRef = gameState /\ handleHostMessage(data))
          => gameState' = gameState]_vars

(* C20: a guest never publishes on the host topic; whatever a guest client *)
(* did (join, ready toggle, sheet edit, mark toggle, bingo call; start,     *)
(* reset, kick and bet price are not open to it), it published nothing but  *)
(* commands on the client topic.                                            *)
CommandTypes ==
    {"JOIN_REQUEST", "PLAYER_LEAVE", "MARK_UPDATE", "PLAYER_UPDATE",
     "BINGO_CLAIM"}

C20_GuestPublishesOnlyCommands ==
    playerId \in Guests
    => \A m \in published : m.topic = ClientTopic /\ m.type \in CommandTypes

C20_Witness ==
    /\ playerId \in Guests
    /\ gameStateRef.status = "ended"
    /\ { Command("PLAYER_UPDATE"), Command("MARK_UPDATE"),
         Command("BINGO_CLAIM") } \subseteq published

(* C21: once the host has published, the room retained on the host topic   *)
(* agrees with the host's room on every room-level field, on the roster and *)
(* on every participant's balance, readiness, play status and sheets.       *)
C21_RetainedAgreesWithRoom ==
    (playerId = HostId /\ retained # <<>>)
    => retained[1] = Replicated(gameState)

(* C22: when a guest applies a Snapshot that lists it, the room it holds    *)
(* afterwards has the Snapshot's value in every room-level field, the       *)
(* Snapshot's roster, and for every other participant the Snapshot's entry  *)
(* (its marks with the members of the Snapshot's array).                    *)
RoomLevel(state) == [f \in DOMAIN state \ {"players"} |-> state[f]]

C22_OthersAndRoomFromSnapshot ==
    [][\A remoteState \in Snapshots :
         (playerId \in Ids(remoteState) /\ handleGuestMessage(remoteState))
         => /\ RoomLevel(gameState') = RoomLevel(remoteState)
            /\ Ids(gameState') = Ids(remoteState)
            /\ \A q \in Ids(remoteState) \ {playerId} :
                  gameState'.players[q] =
                     deserialize(remoteState).players[q]]_vars

C22_Witness ==
    /\ playerId \in Guests
    /\ ~isGameConnectingRef
    /\ localMarked = {}
    /\ gameState # gameStateRef
    /\ gameState.players[HostId].markedNumbers = {1}

(* C23: a guest that is no longer connecting and applies a Snapshot listing *)
(* it keeps its local marks: the marks of its own entry are the local marks *)
(* as they were, the local marks stay, and every other field of its own     *)
(* entry has the Snapshot's value.                                          *)
OwnFields(p) == [f \in DOMAIN p \ {"markedNumbers"} |-> p[f]]

C23_OwnMarksStayLocal ==
    [][\A remoteState \in Snapshots :
         (/\ ~isGameConnecting
          /\ playerId \in Ids(remoteState)
          /\ Deliverable(remoteState)
          /\ handleGuestMessage(remoteState))
         => /\ gameState'.players[playerId].markedNumbers = localMarked
            /\ localMarked' = localMarked
            /\ OwnFields(gameState'.players[playerId]) =
                  OwnFields(remoteState.players[playerId])]_vars

C23_Witness ==
    /\ playerId \in Guests
    /\ ~isGameConnecting
    /\ localMarked = {1}
    /\ gameState.status = "playing"
    /\ gameState.calledNumbers = <<>>
    /\ gameState.players[playerId].markedNumbers = {1}

(* C24: a guest that is still connecting and applies a Snapshot listing it  *)
(* takes the Snapshot's marks for itself, as the marks of its own entry and *)
(* as its local marks, and is no longer connecting.                         *)
C24_FirstSnapshotHydrates ==
    [][\A remoteState \in Snapshots :
         (/\ isGameConnecting
          /\ playerId \in Ids(remoteState)
          /\ handleGuestMessage(remoteState))
         => LET serverMarks ==
                   SeqToSet(remoteState.players[playerId].markedNumbers)
            IN /\ gameState'.players[playerId].markedNumbers = serverMarks
               /\ localMarked' = serverMarks
               /\ ~isGameConnecting']_vars

C24_Witness ==
    /\ playerId \in Guests
    /\ gameStateRef.status = "lobby"
    /\ ~isGameConnecting
    /\ localMarked = {1}
    /\ gameState.players[playerId].markedNumbers = {1}

(* C25: a guest that is no longer connecting and receives a Snapshot whose  *)
(* roster lacks it keeps its room, its rendered room, its local marks, its  *)
(* connecting flag, its error text and its connection as they were.         *)
C25_AbsentFromSnapshotIgnored ==
    [][\A remoteState \in Snapshots :
         (/\ ~isGameConnecting
          /\ playerId \notin Ids(remoteState)
          /\ handleGuestMessage(remoteState))
         => UNCHANGED <<gameState, gameStateRef, localMarked, playerId,
                        isGameConnecting, isGameConnectingRef,
                        connectionError, gameClientOpen>>]_vars

C25_Witness ==
    /\ playerId \in Guests
    /\ ~isGameConnecting
    /\ gameStateRef.status = "playing"
    /\ localMarked = {1}
    /\ \E remoteState \in Snapshots :
          playerId \notin Ids(remoteState) /\ ENABLED handleGuestMessage(remoteState)

(* C27: when the join timer of a guest fires, no message having arrived     *)
(* since joinRoom, the attempt fails: an error text is set, the client is   *)
(* no longer connecting and its connection is closed.                       *)
C27_JoinTimesOut ==
    [][onJoinTimeout
       => /\ connectionError' # ""
          /\ ~isGameConnecting'
          /\ ~gameClientOpen']_vars

C27_Witness ==
    /\ playerId \in Guests
    /\ connectionError # ""
    /\ ~isGameConnecting
    /\ ~isGameConnectingRef
    /\ ~gameClientOpen
    /\ ~joinTimeout

(* C28: the room a host holds comes back equal from serialize and           *)
(* deserialize: every room-level field is equal, and the marks of every     *)
(* participant and of the winner have the same members.                     *)
C28_SnapshotRoundTrip ==
    playerId = HostId => deserialize(serialize(gameState)) = gameState

(* C29: a guest that holds a Snapshot as a connecting client takes it and   *)
(* applies the same Snapshot again, before or after rendering, keeps its    *)
(* room, its local marks and its connecting flag.                           *)
AppliedFresh(remoteState) ==
    /\ playerId \in Ids(remoteState)
    /\ ~isGameConnecting
    /\ gameState = deserialize(remoteState)

C29_SnapshotTwiceAsOnce ==
    [][\A remoteState \in Snapshots :
         (AppliedFresh(remoteState) /\ handleGuestMessage(remoteState))
         => UNCHANGED <<gameState, localMarked, isGameConnecting>>]_vars

C29_Witness ==
    /\ playerId \in Guests
    /\ playersNew
    /\ ~isGameConnectingRef
    /\ gameState = gameStateRef
    /\ \E remoteState \in Snapshots :
          /\ AppliedFresh(remoteState)
          /\ remoteState.players[playerId].markedNumbers # <<>>

(* C30: when the host's connection comes back after a drop, the room the    *)
(* host holds is the room it held before.                                   *)
C30_ReconnectKeepsRoom ==
    [][onConnect => gameState' = gameState]_vars

(* C26: for every number a guest can toggle in a playing room, the toggle   *)
(* is reported with MARK_UPDATE exactly when the about-to-win flag of the   *)
(* marks after the toggle differs from the flag of the marks before it.     *)
C26_ReportedIffFlagChanges ==
    (/\ playerId \in Guests
     /\ gameStateRef.status = "playing"
     /\ playerId \in Ids(gameStateRef)
     /\ "isWaiting" \in DOMAIN gameStateRef.players[playerId]
     /\ gameStateRef.players[playerId].status # "spectating")
    => LET me == gameStateRef.players[playerId]
       IN \A num \in sheetNumbers(me.sheets) :
            (num \in localMarked \/ num \in SeqToSet(gameStateRef.calledNumbers))
            => LET newMarked == IF num \in localMarked
                                THEN localMarked \ {num}
                                ELSE localMarked \cup {num}
                   isWaiting == checkWaiting(me.sheets, newMarked)
               IN markReported(me, isWaiting) =
                    {isWaiting # checkWaiting(me.sheets, localMarked)}

(* C31: a guest that is connecting does not stay connecting forever: it is  *)
(* confirmed by a Snapshot or its join timer ends the attempt.              *)
C31_ConnectingEnds ==
    (playerId \in Guests /\ isGameConnecting) ~> ~isGameConnecting

(* C32: the winner recorded in the host's room is a participant that plays  *)
(* the round (status playing since the round's start), never a spectator.   *)
C32_WinnerIsActive ==
    (playerId = HostId /\ gameState.winner # <<>>)
    => gameState.winner[1].status = "playing"

(* C33: handling a JOIN_REQUEST, PLAYER_UPDATE or MARK_UPDATE leaves the    *)
(* pot and the balance of every participant already in the room as they     *)
(* were, and a participant it adds starts with balance 0.                   *)
C33_CommandsKeepLedger ==
    [][\A data \in LedgerCommands :
         handleHostMessage(data)
         => /\ gameState'.pot = gameState.pot
            /\ \A q \in Ids(gameState') :
                  gameState'.players[q].balance =
                     IF q \in Ids(gameState)
                     THEN gameState.players[q].balance
                     ELSE 0]_vars

(* C34: in every room of the host, the balances of all participants plus    *)
(* the pot add up to the same amount (0, the amount of the room as          *)
(* created), no participant leaving or being kicked.                        *)
RECURSIVE SumBalances(_, _)
SumBalances(state, ids) ==
    IF ids = {} THEN 0
    ELSE LET q == CHOOSE x \in ids : TRUE
         IN state.players[q].balance + SumBalances(state, ids \ {q})

Ledger(state) == SumBalances(state, Ids(state)) + state.pot

C34_LedgerConserved ==
    playerId = HostId => Ledger(gameState) = 0

C34_Witness ==
    /\ playerId = HostId
    /\ rounds = MaxRounds
    /\ gameState.status = "waiting"
    /\ gameState = gameStateRef
    /\ \E q \in Ids(gameState) : gameState.players[q].balance > 0

(* C35: in a rendered playing room, the local marks of a guest are numbers  *)
(* the room has called.                                                     *)
C35_OverlayWithinCalled ==
    (/\ playerId \in Guests
     /\ gameState = gameStateRef
     /\ gameStateRef.status = "playing")
    => localMarked \subseteq SeqToSet(gameStateRef.calledNumbers)

(* the round of the host goes on and a number is left to call *)
RoundGoesOn ==
    /\ playerId = HostId
    /\ gameState.status = "playing"
    /\ IsHostIn(gameState)
    /\ Len(gameState.calledNumbers) < MaxDraw

(* C36: in a round of the host that goes on, with the host in the roster    *)
(* and a number left to call, a further number is drawn again and again,    *)
(* whatever commands reach the host in between.                             *)
C36_DrawGoesOn ==
    <>[]RoundGoesOn => []<><<drawNumberTick>>_vars

(* C37: writing a commentary back changes the text of the commentary and   *)
(* nothing else of the canonical room.                                      *)
C37_CommentaryOnly ==
    [][fetchCommentary
       => gameState' = [gameState EXCEPT !.mcCommentary = gameState'.mcCommentary]]_vars

(* C38: the room after resetGame is waiting, with no called or winning     *)
(* number, no current number, no winner and an empty pot; it has the same   *)
(* participants, each active with no marks and the balance it had, and the  *)
(* host alone is ready.                                                     *)
C38_ResetRoom ==
    [][resetGame
       => /\ gameState'.status = "waiting"
          /\ gameState'.calledNumbers = <<>>
          /\ gameState'.winningNumbers = {}
          /\ gameState'.currentNumber = 0
          /\ gameState'.winner = <<>>
          /\ gameState'.pot = 0
          /\ Ids(gameState') = Ids(gameState)
          /\ \A q \in Ids(gameState) :
                /\ gameState'.players[q].markedNumbers = {}
                /\ gameState'.players[q].status = "playing"
                /\ gameState'.players[q].isReady = (q = playerId)
                /\ gameState'.players[q].balance = gameState.players[q].balance]_vars

(* a reset room with a guest that had paid for the round *)
C38_Witness ==
    /\ playerId = HostId
    /\ gameState.status = "waiting"
    /\ gameState.pot = 0
    /\ \E q \in Ids(gameState) \ {HostId} :
          /\ gameState.players[q].balance # 0
          /\ ~gameState.players[q].isReady

(* C39: a participant the host has kicked, whose user does not join again,  *)
(* stays out of the roster of the host.                                     *)
C39_KickedStaysOut ==
    [][(playerId = HostId /\ "g1" \notin Ids(gameState))
       => "g1" \notin Ids(gameState')]_vars

(* the rows of a ticket that hold a number and whose numbers are all marked *)
FullRows(ticket, markedNumbers) ==
    {r \in DOMAIN ticket.rows :
       /\ \E i \in DOMAIN ticket.rows[r] : ticket.rows[r][i] # 0
       /\ \A i \in DOMAIN ticket.rows[r] :
             ticket.rows[r][i] # 0 => ticket.rows[r][i] \in markedNumbers}

NumbersOn(ticket) ==
    {ticket.rows[r][i] : r \in DOMAIN ticket.rows, i \in 1..2} \ {0}

(* C40: for every sheet and marks of a room, checkWin is true exactly when  *)
(* some row of the sheet holds a number and has all its numbers marked; a   *)
(* row without a number does not win and marks that are not on the sheet    *)
(* do not change the result.                                                *)
C40_CheckWin ==
    \A q \in Ids(gameState) :
       \A k \in DOMAIN gameState.players[q].sheets :
          LET ticket == gameState.players[q].sheets[k]
              markedNumbers == gameState.players[q].markedNumbers
          IN /\ checkWin(ticket, markedNumbers)
                <=> FullRows(ticket, markedNumbers) # {}
             /\ checkWin(ticket, markedNumbers)
                <=> checkWin(ticket, markedNumbers \cap NumbersOn(ticket))

(* the host has accepted the call of a guest whose sheet has a row without  *)
(* a number and whose marks hold a number that is not on the sheet          *)
C40_Witness ==
    /\ gameState.status = "ended"
    /\ gameState.winner # <<>>
    /\ LET w == gameState.winner[1]
       IN /\ w.id = "g1"
          /\ \E r \in DOMAIN w.sheets[1].rows :
                \A i \in DOMAIN w.sheets[1].rows[r] : w.sheets[1].rows[r][i] = 0
          /\ w.markedNumbers \ NumbersOn(w.sheets[1]) # {}

====
